---- MODULE Spec2Model ----
(***************************************************************************)
(* A model of chonky's bounded ("owned") structures:                       *)
(*   - owned::List            the chunked doubly linked list               *)
(*   - owned::PointerChonks   the free block pool                          *)
(*   - owned::LocalPointerChonks  one pool per thread                      *)
(*   - owned::RecyclingList   a List over the thread's pool                *)
(* and of the crate root's unbounded List.                                 *)
(* Heap blocks are addresses 1..NumAddr, the empty Link is NULL, and the   *)
(* heap `mem` maps every address to the bytes found there (a ListChonk).   *)
(***************************************************************************)
EXTENDS Integers, Sequences, FiniteSets, TLC

\* ------------------------------------------------------------------ bounds
MaxN == 2
MaxCap == 3
NumAddr == 4
MaxItem == 2
NumThreads == 2
MaxLocalCap == 2
NumSysAddr == 3
MaxLen == 4

\* ------------------------------------------------------------- primitives
NULL == 0
Addr == 1..NumAddr
Items == 1..MaxItem
Threads == 1..NumThreads
\* The blocks the global allocator hands out.
SysAddr == 1..NumSysAddr

VARIABLES
  N,        \* const N: usize, the chunk size
  mem,      \* the heap: address -> ListChonk bytes
  list,     \* owned::List { head, tail, len, cap }
  live,     \* blocks the list got from its alloc callback and has not freed
  stack,    \* history: the abstract stack of the values pushed, not popped
  pool,     \* owned::PointerChonks { head, tail, length, capacity }
  owned,    \* blocks in the hands of the pool's caller
  held,     \* history: the blocks pushed into the pool, not popped, in order
  dead,     \* the pool's thread has panicked
  local,    \* thread -> PointerChonks (the thread_local! LocalPointerChonks)
  towned,   \* thread -> blocks in the hands of that thread
  theld,    \* history: thread -> blocks stored in its pool, in order
  tdead,    \* thread -> that thread has panicked
  last      \* history: the last call, its argument, result and callbacks

vars == <<N, mem, list, live, stack, pool, owned, held, dead,
          local, towned, theld, tdead, last>>

listVars == <<list, live, stack>>
poolVars == <<pool, owned, held, dead>>
localVars == <<local, towned, theld, tdead>>

\* ------------------------------------------------------------------ Chonk
\* Links::default() and Chonk::from(header): empty links, no items.
ListChonkDefault == [data |-> <<>>, prev |-> NULL, next |-> NULL]

\* What a block that was never initialised, or was dropped, may hold.
StaleChonk == [data |-> <<1>>, prev |-> 1, next |-> 1]

Front(s) == SubSeq(s, 1, Len(s) - 1)

Last(s) == s[Len(s)]

\* is_full reporting a chunk with one free slot as full.
is_full_early(c) == Len(c.data) + 1 >= N

\* Chonk::is_full
is_full(c) == Len(c.data) = N

\* ListChonk::new_in writes the default value to the block alloc returned.
new_in(m, ptr) == [m EXCEPT ![ptr] = ListChonkDefault]

\* The record every call leaves in `last`.
Call(op, t, arg, ok, val, al, fr, pan) ==
  [op |-> op, thread |-> t, arg |-> arg, ok |-> ok, val |-> val,
   alloc |-> al, free |-> fr, panic |-> pan]

\* --------------------------------------------------------------- helpers
RECURSIVE ChainFrom(_, _, _)
\* The chain nodes reached from a node through prev, first node first.
ChainFrom(m, a, fuel) ==
  IF a = NULL \/ fuel = 0 THEN <<>>
  ELSE Append(ChainFrom(m, m[a].prev, fuel - 1), a)

RECURSIVE ChainNext(_, _, _)
\* The chain nodes reached from a node through next, that node first.
ChainNext(m, a, fuel) ==
  IF a = NULL \/ fuel = 0 THEN <<>>
  ELSE <<a>> \o ChainNext(m, m[a].next, fuel - 1)

Range(s) == {s[i] : i \in 1..Len(s)}

\* The blocks a pool holds: its chain nodes and their stashed entries.
Stored(p, m) ==
  LET nodes == Range(ChainFrom(m, p.tail, NumAddr))
  IN nodes \cup UNION {Range(m[a].data) : a \in nodes}

\* ------------------------------------------------------------ owned::List
\* List::with_capacity
ListWithCapacity(c) == [head |-> NULL, tail |-> NULL, len |-> 0, cap |-> c]

\* add_first_block linking the new block without storing the item.
add_first_block_noitem(l, m, item, chonk) ==
  [list |-> [l EXCEPT !.tail = chonk, !.head = chonk],
   mem  |-> new_in(m, chonk)]

\* List::add_first_block
add_first_block(l, m, item, chonk) ==
  [list |-> [l EXCEPT !.tail = chonk, !.head = chonk],
   mem  |-> [new_in(m, chonk) EXCEPT ![chonk].data = <<item>>]]

\* add_block with the new tail's prev link left empty.
add_block_noprev(l, m, item, chonk) ==
  LET old == l.tail
      m1  == [m EXCEPT ![chonk] = ListChonkDefault]
      m2  == [m1 EXCEPT ![old].next = chonk]
  IN [list |-> [l EXCEPT !.tail = chonk],
      mem  |-> [m2 EXCEPT ![chonk].data = <<item>>]]

\* List::add_block
add_block(l, m, item, chonk) ==
  LET old == l.tail
      m1  == new_in(m, chonk)
      m2  == [m1 EXCEPT ![old].next = chonk]
  IN [list |-> [l EXCEPT !.tail = chonk],
      mem  |-> [m2 EXCEPT ![chonk].data = <<item>>, ![chonk].prev = old]]

\* The alloc callback called before the capacity is checked.
PushAllocates_nocap(l, m) ==
  \/ l.tail = NULL
  \/ Len(m[l.tail].data) = N

\* Whether push_custom will call its alloc callback.
PushAllocates(l, m) ==
  /\ l.len # l.cap
  /\ \/ l.tail = NULL
     \/ is_full(m[l.tail])

\* push_custom counting the item before it checks the capacity.
push_custom_countfirst(l, m, item, chonk) ==
  IF l.len = l.cap
  THEN [list |-> [l EXCEPT !.len = @ + 1], mem |-> m,
        ok |-> FALSE, val |-> item, alloc |-> <<>>]
  ELSE LET r == IF l.tail # NULL
                THEN IF Len(m[l.tail].data) # N
                     THEN [list |-> l,
                           mem  |-> [m EXCEPT ![l.tail].data = Append(@, item)]]
                     ELSE add_block(l, m, item, chonk)
                ELSE add_first_block(l, m, item, chonk)
       IN [list  |-> [r.list EXCEPT !.len = @ + 1],
           mem   |-> r.mem,
           ok    |-> TRUE,
           val   |-> 0,
           alloc |-> IF l.tail = NULL \/ Len(m[l.tail].data) = N
                     THEN <<chonk>> ELSE <<>>]

\* List::push_custom; chonk is what the alloc callback returns when called.
push_custom(l, m, item, chonk) ==
  IF l.len = l.cap
  THEN [list |-> l, mem |-> m, ok |-> FALSE, val |-> item, alloc |-> <<>>]
  ELSE LET r == IF l.tail # NULL
                THEN IF ~is_full(m[l.tail])
                     THEN [list |-> l,
                           mem  |-> [m EXCEPT ![l.tail].data = Append(@, item)]]
                     ELSE add_block(l, m, item, chonk)
                ELSE add_first_block(l, m, item, chonk)
       IN [list  |-> [r.list EXCEPT !.len = @ + 1],
           mem   |-> r.mem,
           ok    |-> TRUE,
           val   |-> 0,
           alloc |-> IF PushAllocates(l, m) THEN <<chonk>> ELSE <<>>]

\* pop_custom decrementing len as soon as it has detached the tail.
pop_custom_declen(l, m) ==
  IF l.tail = NULL
  THEN [list |-> l, mem |-> m, ok |-> FALSE, val |-> 0, free |-> <<>>]
  ELSE IF m[l.tail].data # <<>>
  THEN [list |-> l,
        mem  |-> [m EXCEPT ![l.tail].data = Front(@)],
        ok   |-> TRUE, val |-> Last(m[l.tail].data), free |-> <<>>]
  ELSE LET tail == l.tail
           prev == m[tail].prev
           m1   == [m EXCEPT ![tail].prev = NULL]
           l1   == [l EXCEPT !.tail = prev, !.len = @ - 1]
       IN IF prev = NULL \/ m1[prev].data = <<>>
          THEN [list |-> l1, mem |-> m1, ok |-> FALSE, val |-> 0,
                free |-> <<tail>>]
          ELSE [list |-> l1,
                mem  |-> [m1 EXCEPT ![prev].data = Front(@)],
                ok   |-> TRUE, val |-> Last(m1[prev].data),
                free |-> <<tail>>]

\* pop_custom detaching and freeing the tail as soon as its last item goes.
pop_custom_eager(l, m) ==
  IF l.tail = NULL
  THEN [list |-> l, mem |-> m, ok |-> FALSE, val |-> 0, free |-> <<>>]
  ELSE IF Len(m[l.tail].data) = 1
  THEN [list |-> [l EXCEPT !.tail = m[l.tail].prev],
        mem  |-> [m EXCEPT ![l.tail].data = <<>>, ![l.tail].prev = NULL],
        ok   |-> TRUE, val |-> Last(m[l.tail].data), free |-> <<l.tail>>]
  ELSE IF m[l.tail].data # <<>>
  THEN [list |-> l,
        mem  |-> [m EXCEPT ![l.tail].data = Front(@)],
        ok   |-> TRUE, val |-> Last(m[l.tail].data), free |-> <<>>]
  ELSE LET tail == l.tail
           prev == m[tail].prev
           m1   == [m EXCEPT ![tail].prev = NULL]
           l1   == [l EXCEPT !.tail = prev]
       IN IF prev = NULL \/ m1[prev].data = <<>>
          THEN [list |-> l1, mem |-> m1, ok |-> FALSE, val |-> 0,
                free |-> <<tail>>]
          ELSE [list |-> [l1 EXCEPT !.len = @ - 1],
                mem  |-> [m1 EXCEPT ![prev].data = Front(@)],
                ok   |-> TRUE, val |-> Last(m1[prev].data),
                free |-> <<tail>>]

\* List::pop_custom; free lists the blocks handed to the free callback.
pop_custom(l, m) ==
  IF l.tail = NULL
  THEN [list |-> l, mem |-> m, ok |-> FALSE, val |-> 0, free |-> <<>>]
  ELSE IF m[l.tail].data # <<>>
  THEN [list |-> l,
        mem  |-> [m EXCEPT ![l.tail].data = Front(@)],
        ok   |-> TRUE, val |-> Last(m[l.tail].data), free |-> <<>>]
  ELSE LET tail == l.tail
           prev == m[tail].prev
           m1   == [m EXCEPT ![tail].prev = NULL]
           l1   == [l EXCEPT !.tail = prev]
       IN IF prev = NULL \/ m1[prev].data = <<>>
          THEN [list |-> l1, mem |-> m1, ok |-> FALSE, val |-> 0,
                free |-> <<tail>>]
          ELSE [list |-> [l1 EXCEPT !.len = @ - 1],
                mem  |-> [m1 EXCEPT ![prev].data = Front(@)],
                ok   |-> TRUE, val |-> Last(m1[prev].data),
                free |-> <<tail>>]

\* List::push with the global allocator: alloc returns any block not in use.
ListPush(item) ==
  /\ \/ ~PushAllocates(list, mem)
     \/ SysAddr \ live # {}
  /\ \E chonk \in (IF PushAllocates(list, mem) THEN SysAddr \ live ELSE {NULL}) :
       LET r == push_custom(list, mem, item, chonk)
       IN /\ list' = r.list
          /\ mem' = r.mem
          /\ live' = live \cup {r.alloc[i] : i \in 1..Len(r.alloc)}
          /\ stack' = IF r.ok THEN Append(stack, item) ELSE stack
          /\ last' = Call("list.push", 0, item, r.ok, r.val, r.alloc, <<>>, FALSE)
  /\ UNCHANGED <<N, poolVars, localVars>>

\* List::pop with the global deallocator.
ListPop ==
  LET r == pop_custom(list, mem)
  IN /\ list' = r.list
     /\ mem' = r.mem
     /\ live' = live \ {r.free[i] : i \in 1..Len(r.free)}
     /\ stack' = IF r.ok THEN Front(stack) ELSE stack
     /\ last' = Call("list.pop", 0, 0, r.ok, r.val, <<>>, r.free, FALSE)
     /\ UNCHANGED <<N, poolVars, localVars>>

\* -------------------------------------------------- owned::PointerChonks
\* PointerChonks::with_capacity
PoolWithCapacity(c) ==
  [head |-> NULL, tail |-> NULL, length |-> 0, capacity |-> c]

\* The assertions of PointerChonks::with_capacity for chunk size n.
PointerChonksAsserts(n, c) == n > 0

\* impl Default for PointerChonks, chunk size n.
PointerChonksDefault(n) == 8 * (n + 1)

\* pointer_chonks.rs of the crate root: the fixed chunk size.
CHONK_SIZE == 32

\* impl Default for the crate root's PointerChonks.
FixedPointerChonksDefault == CHONK_SIZE * (CHONK_SIZE + 1)

\* init that casts the pointer and writes nothing.
init_nowrite(m, ptr) == m

\* PointerChonks::init: write ListChonk::default() to the block.
init(m, ptr) == [m EXCEPT ![ptr] = ListChonkDefault]

\* push rejecting only when length > capacity.
push_offbyone(p, m, chonk_ptr) ==
  IF p.length > p.capacity
  THEN [pool |-> p, mem |-> m, ok |-> FALSE, val |-> chonk_ptr]
  ELSE LET p1 == [p EXCEPT !.length = @ + 1]
       IN IF p.tail # NULL
          THEN IF Len(m[p.tail].data) # N
               THEN [pool |-> p1,
                     mem  |-> [m EXCEPT ![p.tail].data = Append(@, chonk_ptr)],
                     ok   |-> TRUE, val |-> NULL]
               ELSE LET m1 == [m EXCEPT ![chonk_ptr] = ListChonkDefault]
                        m2 == [m1 EXCEPT ![p.tail].next = chonk_ptr]
                        m3 == [m2 EXCEPT ![chonk_ptr].prev = p.tail]
                    IN [pool |-> [p1 EXCEPT !.tail = chonk_ptr],
                        mem  |-> m3, ok |-> TRUE, val |-> NULL]
          ELSE [pool |-> [p1 EXCEPT !.tail = chonk_ptr, !.head = chonk_ptr],
                mem  |-> [m EXCEPT ![chonk_ptr] = ListChonkDefault],
                ok |-> TRUE, val |-> NULL]

\* PointerChonks::push
push(p, m, chonk_ptr) ==
  IF p.length = p.capacity
  THEN [pool |-> p, mem |-> m, ok |-> FALSE, val |-> chonk_ptr]
  ELSE LET p1 == [p EXCEPT !.length = @ + 1]
       IN IF p.tail # NULL
          THEN IF ~is_full(m[p.tail])
               THEN [pool |-> p1,
                     mem  |-> [m EXCEPT ![p.tail].data = Append(@, chonk_ptr)],
                     ok   |-> TRUE, val |-> NULL]
               ELSE LET m1 == init(m, chonk_ptr)
                        m2 == [m1 EXCEPT ![p.tail].next = chonk_ptr]
                        m3 == [m2 EXCEPT ![chonk_ptr].prev = p.tail]
                    IN [pool |-> [p1 EXCEPT !.tail = chonk_ptr],
                        mem  |-> m3, ok |-> TRUE, val |-> NULL]
          ELSE [pool |-> [p1 EXCEPT !.tail = chonk_ptr, !.head = chonk_ptr],
                mem  |-> init(m, chonk_ptr), ok |-> TRUE, val |-> NULL]

\* pop leaving the new tail's next link pointing at the block it returns.
pop_keepnext(p, m) ==
  IF p.tail = NULL
  THEN [pool |-> p, mem |-> m, ok |-> FALSE, val |-> NULL, panic |-> FALSE]
  ELSE LET p1 == [p EXCEPT !.length = @ - 1]
       IN IF m[p.tail].data # <<>>
          THEN LET item == Last(m[p.tail].data)
                   m1   == [m EXCEPT ![p.tail].data = Front(@)]
               IN [pool |-> p1, mem |-> init(m1, item),
                   ok |-> TRUE, val |-> item, panic |-> FALSE]
          ELSE LET new_tail == m[p.tail].prev
                   m1       == [m EXCEPT ![p.tail].prev = NULL]
               IN IF new_tail = NULL
                  THEN [pool |-> p1, mem |-> m1,
                        ok |-> FALSE, val |-> NULL, panic |-> TRUE]
                  ELSE LET old_tail == p.tail
                           p2 == [p1 EXCEPT !.tail = new_tail]
                           p3 == IF p2.length = 0
                                 THEN [p2 EXCEPT !.head = NULL] ELSE p2
                       IN [pool |-> p3, mem |-> init(m1, old_tail),
                           ok |-> TRUE, val |-> old_tail, panic |-> FALSE]

\* PointerChonks::pop; panic is the unwrap() of an empty Link.
pop(p, m) ==
  IF p.tail = NULL
  THEN [pool |-> p, mem |-> m, ok |-> FALSE, val |-> NULL, panic |-> FALSE]
  ELSE LET p1 == [p EXCEPT !.length = @ - 1]
       IN IF m[p.tail].data # <<>>
          THEN LET item == Last(m[p.tail].data)
                   m1   == [m EXCEPT ![p.tail].data = Front(@)]
               IN [pool |-> p1, mem |-> init(m1, item),
                   ok |-> TRUE, val |-> item, panic |-> FALSE]
          ELSE LET new_tail == m[p.tail].prev
                   m1       == [m EXCEPT ![p.tail].prev = NULL]
               IN IF new_tail = NULL
                  THEN [pool |-> p1, mem |-> m1,
                        ok |-> FALSE, val |-> NULL, panic |-> TRUE]
                  ELSE LET m2 == [m1 EXCEPT ![new_tail].next = NULL]
                           old_tail == p.tail
                           p2 == [p1 EXCEPT !.tail = new_tail]
                           p3 == IF p2.length = 0
                                 THEN [p2 EXCEPT !.head = NULL] ELSE p2
                       IN [pool |-> p3, mem |-> init(m2, old_tail),
                           ok |-> TRUE, val |-> old_tail, panic |-> FALSE]

\* A caller pushes a block it holds.
PoolPush(chonk_ptr) ==
  /\ ~dead
  /\ chonk_ptr \in owned
  /\ LET r == push(pool, mem, chonk_ptr)
     IN /\ pool' = r.pool
        /\ mem' = r.mem
        /\ owned' = IF r.ok THEN owned \ {chonk_ptr} ELSE owned
        /\ held' = IF r.ok THEN Append(held, chonk_ptr) ELSE held
        /\ last' = Call("pool.push", 0, chonk_ptr, r.ok, r.val, <<>>, <<>>, FALSE)
  /\ UNCHANGED <<N, dead, listVars, localVars>>

\* A caller pops; the block returned is the caller's.
PoolPop ==
  /\ ~dead
  /\ LET r == pop(pool, mem)
     IN /\ pool' = r.pool
        /\ mem' = r.mem
        /\ dead' = r.panic
        /\ owned' = IF r.ok THEN owned \cup {r.val} ELSE owned
        /\ held' = IF r.ok THEN Front(held) ELSE held
        /\ last' = Call("pool.pop", 0, 0, r.ok, r.val, <<>>, <<>>, r.panic)
  /\ UNCHANGED <<N, listVars, localVars>>

\* --------------------------------------------- owned::LocalPointerChonks
\* Blocks the global allocator may hand out: in nobody's hands or pool.
SystemFree ==
  SysAddr \ UNION {towned[t] \cup {theld[t][i] : i \in 1..Len(theld[t])} : t \in Threads}

\* do_push calling free whatever the pool answered.
do_push_alwaysfree(p, m, chonk_ptr) ==
  LET r == push(p, m, chonk_ptr)
  IN [pool |-> r.pool, mem |-> r.mem, ok |-> r.ok, free |-> <<chonk_ptr>>]

\* LocalPointerChonks::do_push; free lists the blocks handed to free.
do_push(p, m, chonk_ptr) ==
  LET r == push(p, m, chonk_ptr)
  IN [pool |-> r.pool, mem |-> r.mem, ok |-> r.ok,
      free |-> IF r.ok THEN <<>> ELSE <<chonk_ptr>>]

\* LocalPointerChonks::do_pop; fresh is what alloc returns when called.
do_pop(p, m, fresh) ==
  LET r == pop(p, m)
  IN [pool |-> r.pool, mem |-> r.mem, panic |-> r.panic,
      val   |-> IF r.panic THEN NULL ELSE IF r.ok THEN r.val ELSE fresh,
      alloc |-> IF r.panic \/ r.ok THEN <<>> ELSE <<fresh>>]

\* LocalPointerChonks::push and push_custom, on thread t.
LocalPush(t, chonk_ptr) ==
  /\ ~tdead[t]
  /\ chonk_ptr \in towned[t]
  /\ \E r \in {do_push(local[t], mem, chonk_ptr)} :
        /\ local' = [local EXCEPT ![t] = r.pool]
        /\ mem' = r.mem
        /\ towned' = [towned EXCEPT ![t] = @ \ {chonk_ptr}]
        /\ theld' = IF r.ok THEN [theld EXCEPT ![t] = Append(@, chonk_ptr)]
                    ELSE theld
        /\ last' = Call("local.push", t, chonk_ptr, r.ok, NULL, <<>>, r.free, FALSE)
  /\ UNCHANGED <<N, tdead, listVars, poolVars>>

\* pop on one pool shared by every thread (a static, not a thread_local!).
LocalPop_shared(t) ==
  LET g == CHOOSE u \in Threads : TRUE
  IN /\ ~tdead[t]
     /\ \/ local[g].tail # NULL
        \/ SystemFree # {}
     /\ \E fresh \in (IF local[g].tail = NULL THEN SystemFree ELSE {NULL}) :
          \E r \in {do_pop(local[g], mem, fresh)} :
             /\ local' = [local EXCEPT ![g] = r.pool]
             /\ mem' = r.mem
             /\ tdead' = [tdead EXCEPT ![t] = r.panic]
             /\ towned' = IF r.panic THEN towned
                          ELSE [towned EXCEPT ![t] = @ \cup {r.val}]
             /\ theld' = IF r.alloc = <<>> /\ ~r.panic
                         THEN [theld EXCEPT ![g] = Front(@)] ELSE theld
             /\ last' = Call("local.pop", t, 0, ~r.panic, r.val, r.alloc, <<>>, r.panic)
     /\ UNCHANGED <<N, listVars, poolVars>>

\* LocalPointerChonks::pop and pop_custom, on thread t.
LocalPop(t) ==
  /\ ~tdead[t]
  /\ \/ local[t].tail # NULL
     \/ SystemFree # {}
  /\ \E fresh \in (IF local[t].tail = NULL THEN SystemFree ELSE {NULL}) :
       \E r \in {do_pop(local[t], mem, fresh)} :
          /\ local' = [local EXCEPT ![t] = r.pool]
          /\ mem' = r.mem
          /\ tdead' = [tdead EXCEPT ![t] = r.panic]
          /\ towned' = IF r.panic THEN towned
                       ELSE [towned EXCEPT ![t] = @ \cup {r.val}]
          /\ theld' = IF r.alloc = <<>> /\ ~r.panic
                      THEN [theld EXCEPT ![t] = Front(@)] ELSE theld
          /\ last' = Call("local.pop", t, 0, ~r.panic, r.val, r.alloc, <<>>, r.panic)
  /\ UNCHANGED <<N, listVars, poolVars>>

\* LocalPointerChonks::len, on thread t.
LocalLen(t) == local[t].length

\* A live thread t calls LocalPointerChonks::len.
LocalLenCall(t) ==
  /\ ~tdead[t]
  /\ last' = Call("local.len", t, 0, TRUE, LocalLen(t), <<>>, <<>>, FALSE)
  /\ UNCHANGED <<N, mem, listVars, poolVars, localVars>>

\* The assertions of LocalPointerChonks::with_capacity for chunk size n.
LocalPointerChonksAsserts(n, c) == n > 0 /\ c > 0

\* impl Default for LocalPointerChonks, chunk size n.
LocalPointerChonksDefault(n) == 8 * (n + 1)

\* ------------------------------------------------ owned::RecyclingList
\* The thread the RecyclingList lives on (raw pointers: it is not Send).
ListThread == CHOOSE t \in Threads : TRUE

\* The alloc closure was not called.
NoPop(p, m) ==
  [pool |-> p, mem |-> m, panic |-> FALSE, val |-> NULL, alloc |-> <<>>]

\* The free closure was not called.
NoPush(p, m) == [pool |-> p, mem |-> m, ok |-> FALSE, free |-> <<>>]

\* RecyclingList::push and push_custom on thread t: push_custom with the
\* closure || LocalPointerChonks::pop(key). The closure runs inside new_in,
\* before the list is touched; last.alloc lists the global allocations.
RecyclingPush(t, item) ==
  /\ ~tdead[t]
  /\ LET calls == PushAllocates(list, mem)
         sys   == calls /\ local[t].tail = NULL
     IN /\ sys => SystemFree # {}
        /\ \E fresh \in (IF sys THEN SystemFree ELSE {NULL}) :
             LET a == IF calls THEN do_pop(local[t], mem, fresh)
                      ELSE NoPop(local[t], mem)
                 r == push_custom(list, a.mem, item, a.val)
             IN IF a.panic
                THEN /\ local' = [local EXCEPT ![t] = a.pool]
                     /\ mem' = a.mem
                     /\ tdead' = [tdead EXCEPT ![t] = TRUE]
                     /\ last' = Call("recycling.push", t, item, FALSE, 0,
                                     <<>>, <<>>, TRUE)
                     /\ UNCHANGED <<list, live, stack, towned, theld>>
                ELSE /\ local' = [local EXCEPT ![t] = a.pool]
                     /\ list' = r.list
                     /\ mem' = r.mem
                     /\ live' = live \cup Range(r.alloc)
                     /\ towned' = [towned EXCEPT ![t] = @ \cup Range(r.alloc)]
                     /\ theld' = IF calls /\ a.alloc = <<>>
                                 THEN [theld EXCEPT ![t] = Front(@)]
                                 ELSE theld
                     /\ stack' = IF r.ok THEN Append(stack, item) ELSE stack
                     /\ last' = Call("recycling.push", t, item, r.ok, r.val,
                                     a.alloc, <<>>, FALSE)
                     /\ UNCHANGED tdead
  /\ UNCHANGED <<N, poolVars>>

\* RecyclingList::pop and pop_custom on thread t: pop_custom with the closure
\* |i| LocalPointerChonks::push(key, i), then unwrap(). The closure writes
\* only the detached block and the pool's nodes, pop_custom afterwards only
\* the new tail; last.free lists the global deallocations.
RecyclingPop(t) ==
  /\ ~tdead[t]
  /\ LET r == pop_custom(list, mem)
         f == IF r.free # <<>> THEN do_push(local[t], r.mem, r.free[1])
              ELSE NoPush(local[t], r.mem)
     IN /\ list' = r.list
        /\ mem' = f.mem
        /\ local' = [local EXCEPT ![t] = f.pool]
        /\ live' = live \ Range(r.free)
        /\ towned' = [towned EXCEPT ![t] = @ \ Range(r.free)]
        /\ theld' = IF f.ok THEN [theld EXCEPT ![t] = Append(@, r.free[1])]
                    ELSE theld
        /\ stack' = IF r.ok THEN Front(stack) ELSE stack
        /\ tdead' = [tdead EXCEPT ![t] = ~r.ok]
        /\ last' = Call("recycling.pop", t, 0, r.ok, r.val, <<>>, f.free, ~r.ok)
  /\ UNCHANGED <<N, poolVars>>

\* ------------------------------------------------- List (the crate root)
\* impl Default for List: no capacity field.
ListDefault == [head |-> NULL, tail |-> NULL, len |-> 0]

\* List::add_first_block of the crate root: new_with_allocator writes the
\* default value, the item goes in, tail and head point to the block.
unbounded_add_first_block(l, m, item, chonk) ==
  [list |-> [l EXCEPT !.tail = chonk, !.head = chonk],
   mem  |-> [[m EXCEPT ![chonk] = ListChonkDefault] EXCEPT ![chonk].data = <<item>>]]

\* List::add_block of the crate root.
unbounded_add_block(l, m, item, chonk) ==
  LET old == l.tail
      m1  == [m EXCEPT ![chonk] = ListChonkDefault]
      m2  == [m1 EXCEPT ![old].next = chonk]
  IN [list |-> [l EXCEPT !.tail = chonk],
      mem  |-> [m2 EXCEPT ![chonk].data = <<item>>, ![chonk].prev = old]]

\* Whether the crate root's push_custom will call its alloc callback.
UnboundedPushAllocates(l, m) ==
  \/ l.tail = NULL
  \/ Len(m[l.tail].data) = N

\* List::push_custom of the crate root: no capacity, and len is not touched.
unbounded_push_custom(l, m, item, chonk) ==
  LET r == IF l.tail # NULL
           THEN IF Len(m[l.tail].data) # N
                THEN [list |-> l,
                      mem  |-> [m EXCEPT ![l.tail].data = Append(@, item)]]
                ELSE unbounded_add_block(l, m, item, chonk)
           ELSE unbounded_add_first_block(l, m, item, chonk)
  IN [list  |-> r.list,
      mem   |-> r.mem,
      alloc |-> IF UnboundedPushAllocates(l, m) THEN <<chonk>> ELSE <<>>]

\* List::pop_custom of the crate root: len is not touched.
unbounded_pop_custom(l, m) ==
  IF l.tail = NULL
  THEN [list |-> l, mem |-> m, ok |-> FALSE, val |-> 0, free |-> <<>>]
  ELSE IF m[l.tail].data # <<>>
  THEN [list |-> l,
        mem  |-> [m EXCEPT ![l.tail].data = Front(@)],
        ok   |-> TRUE, val |-> Last(m[l.tail].data), free |-> <<>>]
  ELSE LET tail == l.tail
           prev == m[tail].prev
           m1   == [m EXCEPT ![tail].prev = NULL]
           l1   == [l EXCEPT !.tail = prev]
       IN IF prev = NULL \/ m1[prev].data = <<>>
          THEN [list |-> l1, mem |-> m1, ok |-> FALSE, val |-> 0,
                free |-> <<tail>>]
          ELSE [list |-> l1,
                mem  |-> [m1 EXCEPT ![prev].data = Front(@)],
                ok   |-> TRUE, val |-> Last(m1[prev].data),
                free |-> <<tail>>]

\* List::push of the crate root, while the list holds fewer than MaxLen items.
UnboundedListPush(item) ==
  /\ Len(stack) < MaxLen
  /\ \/ ~UnboundedPushAllocates(list, mem)
     \/ SysAddr \ live # {}
  /\ \E chonk \in (IF UnboundedPushAllocates(list, mem)
                   THEN SysAddr \ live ELSE {NULL}) :
       \E r \in {unbounded_push_custom(list, mem, item, chonk)} :
          /\ list' = r.list
          /\ mem' = r.mem
          /\ live' = live \cup Range(r.alloc)
          /\ stack' = Append(stack, item)
          /\ last' = Call("unbounded.push", 0, item, TRUE, 0, r.alloc, <<>>, FALSE)
  /\ UNCHANGED <<N, poolVars, localVars>>

\* List::pop of the crate root.
UnboundedListPop ==
  /\ \E r \in {unbounded_pop_custom(list, mem)} :
       /\ list' = r.list
       /\ mem' = r.mem
       /\ live' = live \ Range(r.free)
       /\ stack' = IF r.ok THEN Front(stack) ELSE stack
       /\ last' = Call("unbounded.pop", 0, 0, r.ok, r.val, <<>>, r.free, FALSE)
  /\ UNCHANGED <<N, poolVars, localVars>>

\* List::len of the crate root.
UnboundedListLen ==
  /\ last' = Call("unbounded.len", 0, 0, TRUE, list.len, <<>>, <<>>, FALSE)
  /\ UNCHANGED <<N, mem, listVars, poolVars, localVars>>

\* ------------------------------------------------------------------ specs
InitHeap ==
  \E c \in {ListChonkDefault, StaleChonk} : mem = [a \in Addr |-> c]

\* The record a constructor leaves in `last`.
Made(op) == Call(op, 0, 0, TRUE, 0, <<>>, <<>>, FALSE)

\* The chunk sizes a List can hold segments of: new_in asserts N > 0.
ListChunkSize == N \in {n \in 0..MaxN : n > 0}

\* A pool as its constructors leave it: with_capacity(c) for a capacity the
\* constructor's assertions accept, or default().
PoolBuilt(p, op, n, ok_caps, default, default_ok) ==
  \/ \E c \in ok_caps :
       /\ N = n
       /\ p = PoolWithCapacity(c)
       /\ last = Made(op \o ".with_capacity")
  \/ /\ default_ok
     /\ N = n
     /\ p = PoolWithCapacity(default)
     /\ last = Made(op \o ".default")

ListIdle ==
  /\ live = {}
  /\ stack = <<>>

PoolIdle ==
  /\ owned = {}
  /\ held = <<>>
  /\ dead = FALSE

LocalIdle ==
  /\ towned = [t \in Threads |-> {}]
  /\ theld = [t \in Threads |-> <<>>]
  /\ tdead = [t \in Threads |-> FALSE]

\* One owned::List of any capacity, on the global allocator.
InitList ==
  /\ InitHeap
  /\ ListChunkSize
  /\ last = Made("list.with_capacity")
  /\ \E c \in 0..MaxCap : list = ListWithCapacity(c)
  /\ ListIdle
  /\ pool = PoolWithCapacity(0)
  /\ PoolIdle
  /\ local = [t \in Threads |-> PoolWithCapacity(1)]
  /\ LocalIdle

NextList ==
  \/ \E item \in Items : ListPush(item)
  \/ ListPop

SpecList == InitList /\ [][NextList]_vars

\* The same List when it is only pushed to.
NextListGrow == \E item \in Items : ListPush(item)

SpecListGrow == InitList /\ [][NextListGrow]_vars

\* One PointerChonks of any capacity; its caller holds every block.
InitPool ==
  /\ InitHeap
  /\ list = ListWithCapacity(0)
  /\ ListIdle
  /\ \/ \E n \in 0..MaxN :
          PoolBuilt(pool, "pool", n,
                    {c \in 0..MaxCap : PointerChonksAsserts(n, c)},
                    PointerChonksDefault(n),
                    PointerChonksAsserts(n, PointerChonksDefault(n)))
     \/ /\ N = CHONK_SIZE
        /\ pool = PoolWithCapacity(FixedPointerChonksDefault)
        /\ last = Made("pool.default")
  /\ owned = Addr
  /\ held = <<>>
  /\ dead = FALSE
  /\ local = [t \in Threads |-> PoolWithCapacity(1)]
  /\ LocalIdle

NextPool ==
  \/ \E chonk_ptr \in Addr : PoolPush(chonk_ptr)
  \/ PoolPop

SpecPool == InitPool /\ [][NextPool]_vars

\* One LocalPointerChonks per thread; with_capacity asserts cap > 0.
InitLocal ==
  /\ InitHeap
  /\ list = ListWithCapacity(0)
  /\ ListIdle
  /\ pool = PoolWithCapacity(0)
  /\ PoolIdle
  /\ \E p \in {PoolWithCapacity(c) :
                c \in (0..MaxLocalCap) \cup {LocalPointerChonksDefault(n) : n \in 0..MaxN}} :
       /\ \E n \in 0..MaxN :
            PoolBuilt(p, "local", n,
                      {c \in 0..MaxLocalCap : LocalPointerChonksAsserts(n, c)},
                      LocalPointerChonksDefault(n),
                      LocalPointerChonksAsserts(n, LocalPointerChonksDefault(n)))
       /\ local = [t \in Threads |-> p]
  /\ LocalIdle

NextLocal ==
  \/ \E t \in Threads, chonk_ptr \in Addr : LocalPush(t, chonk_ptr)
  \/ \E t \in Threads : LocalPop(t)
  \/ \E t \in Threads : LocalLenCall(t)

SpecLocal == InitLocal /\ [][NextLocal]_vars

\* One RecyclingList on its thread, over that thread's LocalPointerChonks.
InitRecycling ==
  /\ InitHeap
  /\ ListChunkSize
  /\ last = Made("recycling.new")
  /\ \E c \in 0..MaxCap : list = ListWithCapacity(c)
  /\ ListIdle
  /\ pool = PoolWithCapacity(0)
  /\ PoolIdle
  /\ \E c \in 1..MaxLocalCap : local = [t \in Threads |-> PoolWithCapacity(c)]
  /\ LocalIdle

NextRecycling ==
  \/ \E item \in Items : RecyclingPush(ListThread, item)
  \/ RecyclingPop(ListThread)

SpecRecycling == InitRecycling /\ [][NextRecycling]_vars

\* One List of the crate root, on the global allocator. Its chunks are
\* heapless Vecs of N >= 1 slots.
InitUnboundedList ==
  /\ InitHeap
  /\ N \in 1..MaxN
  /\ last = Made("unbounded.default")
  /\ list = ListDefault
  /\ ListIdle
  /\ pool = PoolWithCapacity(0)
  /\ PoolIdle
  /\ local = [t \in Threads |-> PoolWithCapacity(1)]
  /\ LocalIdle

NextUnboundedList ==
  \/ \E item \in Items : UnboundedListPush(item)
  \/ UnboundedListPop
  \/ UnboundedListLen

SpecUnboundedList == InitUnboundedList /\ [][NextUnboundedList]_vars

\* ----------------------------------------------------------------- claims

\* C1: every List pop that returns a value returns the value pushed last
\* among those not yet popped, in one segment or across segments, and a pop
\* yields nothing only when every pushed value has been popped.
C1_ListIsStack ==
  [][last'.op = "list.pop" =>
       IF stack = <<>>
       THEN ~last'.ok
       ELSE last'.ok /\ last'.val = Last(stack)]_vars

\* A pop that detached an empty tail segment and returned a value from the
\* segment before it, with values still stored.
C1_Witness ==
  /\ last.op = "list.pop"
  /\ last.ok
  /\ last.free # <<>>
  /\ stack # <<>>

\* C2: len() equals the successful pushes minus the pops that returned an
\* item, that is the number of values pushed and not yet popped.
C2_LenIsPushesMinusPops == list.len = Len(stack)

\* C3: length <= capacity always; once C values are stored the list is full;
\* a push on a full list fails, returns its argument, calls no allocator and
\* leaves the list and every segment as they were.
C3_RejectedPush ==
  /\ [](list.len <= list.cap)
  /\ [](Len(stack) = list.cap => list.len = list.cap)
  /\ [][last'.op = "list.push" =>
          IF list.len = list.cap
          THEN /\ ~last'.ok
               /\ last'.val = last'.arg
               /\ last'.alloc = <<>>
               /\ list' = list
               /\ mem' = mem
               /\ live' = live
          ELSE last'.ok]_vars

\* A push rejected by a list of capacity C > 0 that stores C values.
C3_Witness ==
  /\ last.op = "list.push"
  /\ ~last.ok
  /\ list.cap > 0
  /\ Len(stack) = list.cap

\* C4: a pool push succeeds while length < capacity and then len() is the
\* number of blocks pushed; a push at length = capacity fails, returns the
\* same block and leaves the pool and every block as they were.
C4_PoolPushCapacity ==
  /\ [](last.op = "pool.push" => pool.length = Len(held))
  /\ [][last'.op = "pool.push" =>
          IF Len(held) < pool.capacity
          THEN last'.ok /\ pool'.length = pool.length + 1
          ELSE /\ ~last'.ok
               /\ last'.val = last'.arg
               /\ pool' = pool
               /\ mem' = mem]_vars

\* The (C+1)-th push, rejected by a pool of capacity C > 0 holding C blocks.
C4_Witness ==
  /\ last.op = "pool.push"
  /\ ~last.ok
  /\ pool.capacity > 0
  /\ Len(held) = pool.capacity
  /\ pool.length = pool.capacity

\* C5: a pop on a pool that holds blocks returns a block and len() drops by
\* one, the pop of the only block held leaves len() = 0 with head and tail
\* empty, and a pop on a pool holding nothing yields nothing.
C5_PopsDrainPool ==
  [][last'.op = "pool.pop" =>
       IF held = <<>>
       THEN ~last'.ok /\ ~last'.panic /\ pool' = pool
       ELSE /\ last'.ok
            /\ pool'.length = pool.length - 1
            /\ (Len(held) = 1 =>
                  /\ pool'.length = 0
                  /\ pool'.head = NULL
                  /\ pool'.tail = NULL)]_vars

\* C6: on a pool of capacity 1, the pop after a push returns the block that
\* was pushed, reinitialised, and leaves the pool as constructed.
C6_RoundTrip ==
  [][(last'.op = "pool.pop" /\ last.op = "pool.push" /\ last.ok
        /\ pool.capacity = 1) =>
       /\ last'.ok
       /\ last'.val = last.arg
       /\ mem'[last.arg] = ListChonkDefault
       /\ pool' = PoolWithCapacity(1)]_vars

\* C7: a pool pop returns the block pushed last among those still held: the
\* stashed entries of the tail before the tail node, the tail node before
\* the blocks pushed before it.
C7_PoolPopsInReverse ==
  [][(last'.op = "pool.pop" /\ held # <<>>) =>
       /\ last'.ok
       /\ last'.val = Last(held)
       /\ pool'.length = Len(held) - 1]_vars

\* C8: the block a pool pop returns has no items and empty prev and next.
C8_PoppedIsReinitialised ==
  (last.op = "pool.pop" /\ last.ok) => mem[last.val] = ListChonkDefault

\* A pop found the tail without stashed entries and returned the tail node
\* itself: the new tail is a full node.
C8_Witness ==
  /\ last.op = "pool.pop"
  /\ last.ok
  /\ last.val # NULL
  /\ pool.tail # NULL
  /\ is_full(mem[pool.tail])

\* C9: a thread-local push into a pool that is not full stores the block
\* (len + 1) and calls no free; into a full pool it calls free once with
\* that block and leaves the pool as it was; a released block is not stored.
C9_LocalPush ==
  [][last'.op = "local.push" =>
       LET t == last'.thread
           a == last'.arg
       IN IF local[t].length # local[t].capacity
          THEN /\ last'.free = <<>>
               /\ local'[t].length = local[t].length + 1
               /\ a \in Stored(local'[t], mem')
          ELSE /\ last'.free = <<a>>
               /\ local' = local
               /\ mem' = mem
               /\ a \notin Stored(local'[t], mem')]_vars

\* A push that found the calling thread's pool full and released the block.
C9_Witness ==
  /\ last.op = "local.push"
  /\ last.free = <<last.arg>>
  /\ local[last.thread].length = local[last.thread].capacity
  /\ last.arg \notin Stored(local[last.thread], mem)

\* C10: a thread-local pop always returns a block: a recycled one, with
\* len - 1 and no alloc, when the pool holds any; otherwise one alloc call
\* and the pool as it was.
C10_LocalPopReturns ==
  [][last'.op = "local.pop" =>
       LET t == last'.thread
       IN /\ ~last'.panic
          /\ last'.val # NULL
          /\ IF local[t].length > 0
             THEN /\ last'.alloc = <<>>
                  /\ local'[t].length = local[t].length - 1
             ELSE /\ last'.alloc = <<last'.val>>
                  /\ local' = local]_vars

\* C11: on one thread, a RecyclingList pop that detaches an emptied segment
\* stores it in the thread's pool (len + 1, no deallocation) when the pool is
\* not full, and a push that needs a segment takes it from the pool (len - 1,
\* no allocation) when the pool holds one, and then succeeds.
C11_RecyclesSegments ==
  [][LET t == last'.thread
     IN /\ (/\ last'.op = "recycling.pop"
            /\ list.tail # NULL
            /\ mem[list.tail].data = <<>>
            /\ local[t].length # local[t].capacity) =>
              /\ local'[t].length = local[t].length + 1
              /\ last'.free = <<>>
              /\ list.tail \in Stored(local'[t], mem')
        /\ (/\ last'.op = "recycling.push"
            /\ PushAllocates(list, mem)
            /\ local[t].length >= 1) =>
              /\ last'.ok
              /\ last'.alloc = <<>>
              /\ local'[t].length = local[t].length - 1]_vars

\* C12: a RecyclingList push on a list at capacity returns the value it was
\* given, leaves the list, the pool and the heap unchanged and allocates
\* nothing.
C12_RecyclingPushAtCapacity ==
  [][(last'.op = "recycling.push" /\ list.len = list.cap) =>
       /\ ~last'.ok
       /\ ~last'.panic
       /\ last'.val = last'.arg
       /\ last'.alloc = <<>>
       /\ list' = list
       /\ local' = local
       /\ mem' = mem
       /\ theld' = theld]_vars

\* A push rejected by a list at capacity whose tail segment is full, while
\* the thread's pool holds a segment.
C12_Witness ==
  /\ last.op = "recycling.push"
  /\ ~last.ok
  /\ list.cap > 0
  /\ list.len = list.cap
  /\ list.tail # NULL
  /\ is_full(mem[list.tail])
  /\ local[last.thread].length > 0

\* C13: a pop on a List, a PointerChonks or a RecyclingList that holds
\* nothing yields no value and does not panic.
C13_EmptyPopIsNoValue ==
  [][(\/ last'.op = "list.pop" /\ stack = <<>>
      \/ last'.op = "pool.pop" /\ held = <<>>
      \/ last'.op = "recycling.pop" /\ stack = <<>>) =>
       /\ ~last'.ok
       /\ ~last'.panic]_vars

\* C14: a pool is never built with chunk size 0 or capacity 0, directly or
\* through the thread-local wrapper, so no push or pop runs on such a pool.
C14_MisconfigurationCaught ==
  /\ N > 0
  /\ last.op \in {"pool.with_capacity", "pool.push", "pool.pop"} =>
       pool.capacity > 0
  /\ last.op \in {"local.with_capacity", "local.push", "local.pop"} =>
       \A t \in Threads : local[t].capacity > 0

\* C15: a thread-local call touches only the calling thread's pool: the
\* pools and stored blocks of the other threads are as before, len() is the
\* number of blocks the calling thread stored and did not get back, and a
\* pop never returns a block stored in another thread's pool.
C15_ThreadsIsolated ==
  /\ [](last.op = "local.len" => last.val = Len(theld[last.thread]))
  /\ [][last'.op \in {"local.push", "local.pop", "local.len"} =>
          \A u \in Threads \ {last'.thread} :
            /\ local'[u] = local[u]
            /\ \A a \in Stored(local[u], mem) :
                 /\ mem'[a] = mem[a]
                 /\ last'.op = "local.pop" => last'.val # a]_vars

\* A thread got a recycled block from its own pool while another thread's
\* pool holds blocks.
C15_Witness ==
  /\ last.op = "local.pop"
  /\ last.ok
  /\ last.alloc = <<>>
  /\ \E u \in Threads \ {last.thread} : theld[u] # <<>>

Ceil(k, n) == (k + n - 1) \div n

\* C16: after k successful pushes and no pop, ceil(k / N) segments were
\* allocated and the list is ceil(k / N) segments linked from head to tail;
\* a push allocates exactly when k is a multiple of N.
C16_SegmentsAllocated ==
  /\ [](/\ Cardinality(live) = Ceil(Len(stack), N)
        /\ Len(ChainFrom(mem, list.tail, NumAddr)) = Ceil(Len(stack), N)
        /\ ChainNext(mem, list.head, NumAddr) = ChainFrom(mem, list.tail, NumAddr)
        /\ Range(ChainFrom(mem, list.tail, NumAddr)) = live)
  /\ [][(last'.op = "list.push" /\ last'.ok) =>
          Len(last'.alloc) = (IF Len(stack) % N = 0 THEN 1 ELSE 0)]_vars

\* Three pushes with N = 2: two segments, the second half full.
C16_Witness ==
  /\ N = 2
  /\ Len(stack) = 3
  /\ Cardinality(live) = 2

C18_DefaultCapacity ==
  /\ last.op = "pool.default" => pool.capacity = 8 * (N + 1)
  /\ last.op = "local.default" =>
       \A t \in Threads : local[t].capacity = 8 * (N + 1)

\* C19: head is empty iff tail is empty iff length = 0.
C19_HeadTailLength ==
  /\ (list.head = NULL) <=> (list.tail = NULL)
  /\ (list.tail = NULL) <=> (list.len = 0)

\* C20: the segments from head through next are those from tail through
\* prev, every segment but the head has a prev, every segment but the tail
\* has a next, and the tail's next is empty.
C20_ChainLinkedBothWays ==
  LET bwd == ChainFrom(mem, list.tail, NumAddr)
  IN /\ ChainNext(mem, list.head, NumAddr) = bwd
     /\ \A i \in 2..Len(bwd) : mem[bwd[i]].prev # NULL
     /\ \A i \in 1..(Len(bwd) - 1) : mem[bwd[i]].next # NULL
     /\ list.tail # NULL => mem[list.tail].next = NULL

RECURSIVE ItemsIn(_, _)
\* The number of items in the data of the segments of a chain.
ItemsIn(m, chain) ==
  IF chain = <<>> THEN 0
  ELSE Len(m[Head(chain)].data) + ItemsIn(m, Tail(chain))

\* C21: every segment linked before the tail holds exactly N items and the
\* tail holds 0 to N; the linked segments are those allocated and not freed;
\* a tail becomes empty only by a pop that returned an item, and the next
\* pop frees it and makes its prev the tail.
C21_SegmentsFull ==
  /\ [](LET chain == ChainFrom(mem, list.tail, NumAddr)
        IN /\ Range(chain) = live
           /\ \A i \in 1..(Len(chain) - 1) : Len(mem[chain[i]].data) = N
           /\ list.tail # NULL => Len(mem[list.tail].data) \in 0..N)
  /\ [][/\ (/\ list'.tail # NULL
            /\ mem'[list'.tail].data = <<>>
            /\ ~(list.tail = list'.tail /\ mem[list.tail].data = <<>>)) =>
              /\ last'.op = "list.pop"
              /\ last'.ok
        /\ (/\ list.tail # NULL
            /\ mem[list.tail].data = <<>>
            /\ last'.op = "list.pop") =>
              /\ last'.free = <<list.tail>>
              /\ list'.tail = mem[list.tail].prev]_vars

\* A pop has drained the tail of a list of two segments or more.
C21_Witness ==
  /\ list.tail # NULL
  /\ mem[list.tail].data = <<>>
  /\ Len(ChainFrom(mem, list.tail, NumAddr)) >= 2
  /\ last.op = "list.pop"

\* C22: alloc is called only by a successful push that finds the tail absent
\* or full, free only by a pop that finds the tail empty, each at most once
\* a call, and the block freed is one that was allocated and not yet freed.
C22_SegmentLifecycle ==
  [][/\ last'.alloc # <<>> =>
          /\ last'.op = "list.push"
          /\ last'.ok
          /\ list.tail = NULL \/ Len(mem[list.tail].data) = N
          /\ Len(last'.alloc) = 1
          /\ last'.alloc[1] \notin live
     /\ last'.free # <<>> =>
          /\ last'.op = "list.pop"
          /\ list.tail # NULL
          /\ mem[list.tail].data = <<>>
          /\ Len(last'.free) = 1
          /\ last'.free[1] \in live
          /\ last'.free[1] \notin live']_vars

\* A pop freed a segment while the list keeps another one.
C22_Witness ==
  /\ last.op = "list.pop"
  /\ last.free # <<>>
  /\ live # {}

\* C23: length is the number of chain nodes plus the number of entries
\* stashed in them, every chain node before the tail holds N entries, and
\* 0 <= length <= capacity.
C23_PoolLength ==
  LET chain == ChainFrom(mem, pool.tail, NumAddr)
  IN /\ pool.length = Len(chain) + ItemsIn(mem, chain)
     /\ \A i \in 1..(Len(chain) - 1) : Len(mem[chain[i]].data) = N
     /\ 0 <= pool.length
     /\ pool.length <= pool.capacity

\* C24: len() of the unbounded List is the number of items in its segments.
C24_UnboundedLen ==
  list.len = ItemsIn(mem, ChainFrom(mem, list.tail, NumAddr))

\* C25: head, tail and the prev and next links of the list's segments refer
\* to no segment that was passed to the free callback.
C25_NoDanglingReference ==
  LET chain == Range(ChainFrom(mem, list.tail, NumAddr))
  IN ({list.head, list.tail} \cup {mem[a].prev : a \in chain}
                             \cup {mem[a].next : a \in chain})
       \subseteq (live \cup {NULL})

\* C26: a push is rejected only when the number of items stored equals the
\* capacity.
C26_RejectedOnlyWhenFull ==
  (last.op = "list.push" /\ ~last.ok) =>
     ItemsIn(mem, ChainFrom(mem, list.tail, NumAddr)) = list.cap

\* What the pool refers to: head, tail, its chain nodes, their stashed
\* entries, and the chain nodes' prev and next links.
PoolRefs ==
  LET nodes == Range(ChainFrom(mem, pool.tail, NumAddr))
  IN {pool.head, pool.tail} \cup Stored(pool, mem)
       \cup {mem[a].prev : a \in nodes} \cup {mem[a].next : a \in nodes}

\* C27: the block a pop returns was pushed and not yet returned, and after
\* the pop the pool refers to it nowhere, so no block is returned twice
\* without being pushed again.
C27_PoppedIsForgotten ==
  /\ []((last.op = "pool.pop" /\ last.ok) => last.val \notin PoolRefs)
  /\ [][(last'.op = "pool.pop" /\ last'.ok) =>
          /\ last'.val \in Range(held)
          /\ last'.val \notin owned
          /\ last'.val \notin Range(held')]_vars

\* A pop returned the tail chain node and left the pool a full tail.
C27_Witness ==
  /\ last.op = "pool.pop"
  /\ last.ok
  /\ pool.tail # NULL
  /\ Len(mem[pool.tail].data) = N

====
